---- MODULE Spec2Model ----
(***************************************************************************)
(* Model of src/server.py: the Forge automation API, one endpoint          *)
(* POST /execute handled by execute_task.                                  *)
(*                                                                         *)
(* A worker is one thread of the server's pool running one request.  The   *)
(* framework parses the body into an ExecuteRequest (running               *)
(* validate_task) before execute_task is entered; execute_task then runs   *)
(* its statements in order.  The system clock read by datetime.utcnow()    *)
(* and the process-wide logger are the only objects outside a worker.      *)
(*                                                                         *)
(* Optional values are sequences: <<>> is None / absent, <<x>> is x.       *)
(* Text whose characters matter (task) is a sequence of characters.        *)
(***************************************************************************)
EXTENDS Integers, Sequences, FiniteSets, TLC

\* ---- bounds ------------------------------------------------------------
NumWorkers == 2
MaxTaskLen == 2
MaxTools == 2
MaxClock == 2

Workers == 1..NumWorkers
\* the worker of the specifications that serve one request at a time
SeqWorkers == {1}

\* ---- input alphabets ---------------------------------------------------
Whitespace == {" ", "\t"}
Chars == Whitespace \cup {"a"}
ModelIds == {"claude", "gpt"}
ToolIds == {"search", "browser"}

SeqsUpTo(S, n) == UNION {[1..k -> S] : k \in 0..n}

Opt(S) == {<<>>} \cup {<<x>> : x \in S}

\* a JSON body: each field present or omitted
Bodies ==
  [task : Opt(SeqsUpTo(Chars, MaxTaskLen)),
   model : Opt(ModelIds),
   tools : Opt(SeqsUpTo(ToolIds, MaxTools))]

\* the bodies sent by the clients of the concurrent specification
ConcBodies ==
  { [task |-> <<<<"a">>>>, model |-> <<"gpt">>, tools |-> <<<<"search", "browser">>>>],
    [task |-> <<<<"a", " ">>>>, model |-> <<>>, tools |-> <<<<"browser">>>>],
    [task |-> <<<<" ">>>>, model |-> <<"gpt">>, tools |-> <<>>] }

\* exceptions that the runtime may raise while objects are allocated
Exceptions ==
  { [type |-> "MemoryError", args |-> <<>>],
    [type |-> "RuntimeError", args |-> <<"boom">>] }

\* ---- str.strip ---------------------------------------------------------
RECURSIVE LStrip(_)
LStrip(s) ==
  IF s # <<>> /\ Head(s) \in Whitespace THEN LStrip(Tail(s)) ELSE s

RECURSIVE RStrip(_)
RStrip(s) ==
  IF s # <<>> /\ s[Len(s)] \in Whitespace
  THEN RStrip(SubSeq(s, 1, Len(s) - 1))
  ELSE s

Strip(s) == RStrip(LStrip(s))

\* ---- ExecuteRequest ----------------------------------------------------
DefaultModelGpt == "gpt"

DefaultModel == "claude"

DefaultTools == <<>>

\* mutants of validate_task
validate_task_stripped(value) ==
  IF Strip(value) = <<>> THEN <<>> ELSE <<Strip(value)>>

validate_task_nonempty(value) ==
  IF value = <<>> THEN <<>> ELSE <<value>>

\* <<>> when ValueError is raised, <<v>> when v is returned
validate_task(value) ==
  IF Strip(value) = <<>> THEN <<>> ELSE <<value>>

\* pydantic's construction of ExecuteRequest from a body:
\* <<>> on a validation error, <<request>> otherwise
ParseRequest(b) ==
  IF b.task = <<>> THEN <<>>
  ELSE LET v == validate_task(b.task[1]) IN
       IF v = <<>> THEN <<>>
       ELSE << [task |-> v[1],
                model |-> IF b.model = <<>> THEN DefaultModel ELSE b.model[1],
                tools |-> IF b.tools = <<>> THEN DefaultTools ELSE b.tools[1]] >>

\* the 422 answer of the framework
ValidationError(b) ==
  [status_code |-> 422,
   detail |-> IF b.task = <<>> THEN "field required"
              ELSE "Task description cannot be empty."]

\* ---- execute_task: the values it builds --------------------------------
Step(id, action, status, detail) ==
  [id |-> id, action |-> action, status |-> status, detail |-> detail]

ExecStepsFour ==
  << Step(1, "Initializing agent", "completed", "Environment verified."),
     Step(2, "Analyzing task", "completed", "Task intent classified."),
     Step(3, "Executing actions", "completed", "Simulated agent actions executed."),
     Step(4, "Gathering results", "completed", "Compiled structured findings.") >>

ExecSteps ==
  << Step(1, "Initializing agent", "completed", "Environment verified."),
     Step(2, "Analyzing task", "completed", "Task intent classified."),
     Step(3, "Executing actions", "completed", "Simulated agent actions executed."),
     Step(4, "Gathering results", "completed", "Compiled structured findings."),
     Step(5, "Finalizing output", "completed", "Generated completion payload.") >>

RECURSIVE Dedup(_)
Dedup(s) ==
  IF s = <<>> THEN <<>>
  ELSE LET r == Dedup(SubSeq(s, 1, Len(s) - 1)) IN
       IF \E i \in 1..Len(r) : r[i] = s[Len(s)] THEN r ELSE Append(r, s[Len(s)])

ResultMessage == "Execution completed without errors."

ResultStatus == "completed"

\* str(exc) of an exception with at most one argument
ExcStr(exc) == IF exc.args = <<>> THEN "" ELSE exc.args[1]

HTTPExceptionGeneric(exc) ==
  [status_code |-> 500, detail |-> "Internal Server Error"]

HTTPException(exc) ==
  [status_code |-> 500, detail |-> ExcStr(exc)]

ExecuteResponse(task, status, mode, message, steps, data, started_at, completed_at) ==
  [task |-> task, status |-> status, mode |-> mode, message |-> message,
   steps |-> steps, data |-> data,
   started_at |-> started_at, completed_at |-> completed_at]

\* ---- log records -------------------------------------------------------
RequestContext(request) ==
  [task |-> request.task, model |-> request.model, tools |-> request.tools]

\* logger.info("Received task request", extra={...})
ReceivedLogRecord(w, request) ==
  [thread |-> w, level |-> "INFO", msg |-> "Received task request",
   extra |-> <<RequestContext(request)>>, exc_info |-> <<>>]

FailedLogRecordNoTrace(w, e) ==
  [thread |-> w, level |-> "ERROR", msg |-> "Task execution failed",
   extra |-> <<>>, exc_info |-> <<>>]

\* logger.exception("Task execution failed")
FailedLogRecord(w, e) ==
  [thread |-> w, level |-> "ERROR", msg |-> "Task execution failed",
   extra |-> <<>>, exc_info |-> <<e>>]

\* ---- state -------------------------------------------------------------
VARIABLES
  pc,              \* position of each worker
  body,            \* the body the worker received, <<>> before it arrives
  request,         \* the ExecuteRequest passed to execute_task
  started_at,      \* local of execute_task
  steps,           \* local of execute_task
  result_payload,  \* local of execute_task
  message,         \* local of execute_task
  status,          \* local of execute_task
  exc,             \* the exception caught by the except clause
  response,        \* the ExecuteResponse returned
  error,           \* the error answer: 422 of the framework, 500 of the handler
  log,             \* the records emitted through logger, in order
  clock            \* the system's wall clock, read by datetime.utcnow()

vars == <<pc, body, request, started_at, steps, result_payload, message,
          status, exc, response, error, log, clock>>

locals(w) == <<pc[w], body[w], request[w], started_at[w], steps[w],
               result_payload[w], message[w], status[w], exc[w],
               response[w], error[w]>>

Init ==
  /\ pc = [w \in Workers |-> "idle"]
  /\ body = [w \in Workers |-> <<>>]
  /\ request = [w \in Workers |-> <<>>]
  /\ started_at = [w \in Workers |-> <<>>]
  /\ steps = [w \in Workers |-> <<>>]
  /\ result_payload = [w \in Workers |-> <<>>]
  /\ message = [w \in Workers |-> <<>>]
  /\ status = [w \in Workers |-> <<>>]
  /\ exc = [w \in Workers |-> <<>>]
  /\ response = [w \in Workers |-> <<>>]
  /\ error = [w \in Workers |-> <<>>]
  /\ log = <<>>
  /\ clock \in 0..MaxClock

\* ---- the result payload (lines 73-77) ----------------------------------
\* mutant: tools_used built from the distinct tools
ResultPayloadDedup(req) ==
  [summary |-> "Task processed successfully in stub backend.",
   model |-> req.model,
   tools_used |-> Dedup(req.tools)]

\* mutant: the payload carries the time at which it was built
ResultPayloadStamped(req) ==
  [summary |-> "Task processed successfully in stub backend.",
   model |-> req.model,
   tools_used |-> req.tools,
   at |-> clock]

\* mutant: the payload is built from a request kept in a module global,
\* which the first worker to be served has set
ResultPayloadGlobal(req) ==
  LET first == IF request[1] # <<>> THEN request[1][1] ELSE req IN
  [summary |-> "Task processed successfully in stub backend.",
   model |-> first.model,
   tools_used |-> first.tools]

ResultPayload(req) ==
  [summary |-> "Task processed successfully in stub backend.",
   model |-> req.model,
   tools_used |-> req.tools]

\* ---- actions -----------------------------------------------------------
\* The framework receives body b for worker w and builds the
\* ExecuteRequest; a validation error answers 422 and execute_task is
\* never entered.
Deliver(w, b) ==
  /\ pc[w] = "idle"
  /\ body' = [body EXCEPT ![w] = <<b>>]
  /\ LET r == ParseRequest(b) IN
     IF r = <<>>
     THEN /\ pc' = [pc EXCEPT ![w] = "rejected"]
          /\ error' = [error EXCEPT ![w] = <<ValidationError(b)>>]
          /\ UNCHANGED request
     ELSE /\ pc' = [pc EXCEPT ![w] = "accepted"]
          /\ request' = [request EXCEPT ![w] = r]
          /\ UNCHANGED error
  /\ UNCHANGED <<started_at, steps, result_payload, message, status, exc,
                 response, log, clock>>

Receive(w) == \E b \in Bodies : Deliver(w, b)

ReceiveConc(w) == \E b \in ConcBodies : Deliver(w, b)

\* line 60
LogReceived(w) ==
  /\ pc[w] = "accepted"
  /\ log' = Append(log, ReceivedLogRecord(w, request[w][1]))
  /\ pc' = [pc EXCEPT ![w] = "logged"]
  /\ UNCHANGED <<body, request, started_at, steps, result_payload, message,
                 status, exc, response, error, clock>>

\* line 62
RecordStart(w) ==
  /\ pc[w] = "logged"
  /\ started_at' = [started_at EXCEPT ![w] = <<clock>>]
  /\ pc' = [pc EXCEPT ![w] = "started"]
  /\ UNCHANGED <<body, request, steps, result_payload, message, status, exc,
                 response, error, log, clock>>

\* lines 65-71
BuildSteps(w) ==
  /\ pc[w] = "started"
  /\ steps' = [steps EXCEPT ![w] = ExecSteps]
  /\ pc' = [pc EXCEPT ![w] = "stepped"]
  /\ UNCHANGED <<body, request, started_at, result_payload, message, status,
                 exc, response, error, log, clock>>

\* lines 73-80
BuildPayload(w) ==
  /\ pc[w] = "stepped"
  /\ result_payload' = [result_payload EXCEPT ![w] = <<ResultPayload(request[w][1])>>]
  /\ message' = [message EXCEPT ![w] = <<ResultMessage>>]
  /\ status' = [status EXCEPT ![w] = <<ResultStatus>>]
  /\ pc' = [pc EXCEPT ![w] = "built"]
  /\ UNCHANGED <<body, request, started_at, steps, exc, response, error,
                 log, clock>>

\* lines 82-84: an exception e raised inside the try block, while the
\* steps or the payload are being built
Fail(w) ==
  /\ pc[w] \in {"started", "stepped"}
  /\ \E e \in Exceptions :
       /\ exc' = [exc EXCEPT ![w] = <<e>>]
       /\ log' = Append(log, FailedLogRecord(w, e))
       /\ error' = [error EXCEPT ![w] = <<HTTPException(e)>>]
  /\ pc' = [pc EXCEPT ![w] = "failed"]
  /\ UNCHANGED <<body, request, started_at, steps, result_payload, message,
                 status, response, clock>>

\* lines 86-97
Respond(w) ==
  /\ pc[w] = "built"
  /\ response' = [response EXCEPT ![w] =
       <<ExecuteResponse(request[w][1].task, status[w][1], request[w][1].model,
                         message[w][1], steps[w], result_payload[w][1],
                         started_at[w][1], clock)>>]
  /\ pc' = [pc EXCEPT ![w] = "done"]
  /\ UNCHANGED <<body, request, started_at, steps, result_payload, message,
                 status, exc, error, log, clock>>

\* the wall clock advances
Tick ==
  /\ clock < MaxClock
  /\ clock' = clock + 1
  /\ UNCHANGED <<pc, body, request, started_at, steps, result_payload,
                 message, status, exc, response, error, log>>

\* the wall clock is set back (a time synchronisation step, an operator)
SetBack ==
  /\ clock > 0
  /\ clock' \in 0..(clock - 1)
  /\ UNCHANGED <<pc, body, request, started_at, steps, result_payload,
                 message, status, exc, response, error, log>>

\* ---- specifications ----------------------------------------------------
\* one request, no exception inside the try block
Next ==
  \/ \E w \in SeqWorkers : Receive(w)
  \/ \E w \in SeqWorkers : LogReceived(w)
  \/ \E w \in SeqWorkers : RecordStart(w)
  \/ \E w \in SeqWorkers : BuildSteps(w)
  \/ \E w \in SeqWorkers : BuildPayload(w)
  \/ \E w \in SeqWorkers : Respond(w)
  \/ Tick
  \/ SetBack

Spec == Init /\ [][Next]_vars

\* one request, the runtime may raise inside the try block
NextFault ==
  \/ \E w \in SeqWorkers : Receive(w)
  \/ \E w \in SeqWorkers : LogReceived(w)
  \/ \E w \in SeqWorkers : RecordStart(w)
  \/ \E w \in SeqWorkers : BuildSteps(w)
  \/ \E w \in SeqWorkers : BuildPayload(w)
  \/ \E w \in SeqWorkers : Fail(w)
  \/ \E w \in SeqWorkers : Respond(w)
  \/ Tick
  \/ SetBack

SpecFault == Init /\ [][NextFault]_vars

\* the pool's workers serve one request each, their statements interleaved;
\* the clock only advances here: nothing checked under this specification
\* is about the order of two readings
NextConc ==
  \/ \E w \in Workers : ReceiveConc(w)
  \/ \E w \in Workers : LogReceived(w)
  \/ \E w \in Workers : RecordStart(w)
  \/ \E w \in Workers : BuildSteps(w)
  \/ \E w \in Workers : BuildPayload(w)
  \/ \E w \in Workers : Respond(w)
  \/ Tick

SpecConc == Init /\ [][NextConc]_vars

\* ---- vocabulary of the properties --------------------------------------
\* the task of body b is present and has a character that is not whitespace
HasVisibleChar(b) ==
  /\ b.task # <<>>
  /\ \E i \in 1..Len(b.task[1]) : b.task[1][i] \notin Whitespace

\* the task of body b is present and is empty or whitespace only
BlankTask(b) ==
  /\ b.task # <<>>
  /\ \A i \in 1..Len(b.task[1]) : b.task[1][i] \in Whitespace

Succeeded(w) == pc[w] = "done"

LogOf(w) == SelectSeq(log, LAMBDA r : r.thread = w)

HasResponse(w) == response[w] # <<>>

HasError(w, code) == error[w] # <<>> /\ error[w][1].status_code = code

\* the response of w, field by field, from the body w received
OwnResponse(w) ==
  LET b == body[w][1]
      r == response[w][1] IN
  /\ r.task = b.task[1]
  /\ r.mode = (IF b.model = <<>> THEN "claude" ELSE b.model[1])
  /\ r.data.model = (IF b.model = <<>> THEN "claude" ELSE b.model[1])
  /\ r.data.tools_used = (IF b.tools = <<>> THEN <<>> ELSE b.tools[1])

\* ---- C1 ----------------------------------------------------------------
\* C1: a request whose task has a non-whitespace character is never
\* rejected and never fails, and when it has ended its response holds
\* exactly 5 steps with ids 1..5 in order, each with status "completed".
C1_FiveCompletedSteps ==
  \A w \in Workers :
    (body[w] # <<>> /\ HasVisibleChar(body[w][1])) =>
      /\ pc[w] \notin {"rejected", "failed"}
      /\ error[w] = <<>>
      /\ Succeeded(w) =>
           /\ response[w] # <<>>
           /\ Len(response[w][1].steps) = 5
           /\ \A i \in 1..5 :
                /\ response[w][1].steps[i].id = i
                /\ response[w][1].steps[i].status = "completed"

C1_Witness ==
  \E w \in Workers :
    /\ Succeeded(w)
    /\ body[w][1].task = << <<" ", "a">> >>
    /\ body[w][1].model = <<"gpt">>
    /\ body[w][1].tools = << <<"search">> >>
    /\ Len(response[w][1].steps) = 5

\* ---- C2 ----------------------------------------------------------------
\* C2: a request whose task is empty or whitespace only ends with the
\* validation error and nothing else: no step is built, started_at is not
\* recorded, no response exists.
C2_BlankTaskRejected ==
  \A w \in Workers :
    (body[w] # <<>> /\ BlankTask(body[w][1])) =>
      /\ pc[w] = "rejected"
      /\ error[w] # <<>> /\ error[w][1].status_code = 422
      /\ request[w] = <<>>
      /\ steps[w] = <<>>
      /\ started_at[w] = <<>>
      /\ result_payload[w] = <<>>
      /\ response[w] = <<>>

C2_Witness ==
  \E w \in Workers :
    /\ pc[w] = "rejected"
    /\ body[w][1].task = << <<" ", "\t">> >>
    /\ error[w][1].detail = "Task description cannot be empty."

\* ---- C3 ----------------------------------------------------------------
\* C3: a response's task is the submitted task, character for character,
\* and its mode is the request's model.
C3_TaskAndModeEchoed ==
  \A w \in Workers :
    Succeeded(w) =>
      /\ response[w][1].task = body[w][1].task[1]
      /\ response[w][1].mode = request[w][1].model
      /\ body[w][1].model # <<>> => response[w][1].mode = body[w][1].model[1]

C3_Witness ==
  \E w \in Workers :
    /\ Succeeded(w)
    /\ body[w][1].task = << <<"a", " ">> >>
    /\ response[w][1].task = <<"a", " ">>
    /\ response[w][1].mode = "gpt"

\* ---- C4 ----------------------------------------------------------------
\* C4: a response's data.tools_used is the request's tools, the same
\* sequence (length, positions, duplicates), and data.model is the
\* request's model.
C4_ToolsEchoed ==
  \A w \in Workers :
    Succeeded(w) =>
      /\ response[w][1].data.tools_used = request[w][1].tools
      /\ body[w][1].tools # <<>> =>
           response[w][1].data.tools_used = body[w][1].tools[1]
      /\ response[w][1].data.model = request[w][1].model
      /\ body[w][1].model # <<>> =>
           response[w][1].data.model = body[w][1].model[1]

C4_Witness ==
  \E w \in Workers :
    /\ Succeeded(w)
    /\ body[w][1].tools = << <<"search", "search">> >>
    /\ response[w][1].data.tools_used = <<"search", "search">>

\* ---- C5 ----------------------------------------------------------------
\* C5: an omitted model is answered with mode and data.model "claude", an
\* omitted tools with the empty tools_used, and a field that is given is
\* not replaced by its default.
C5_Defaults ==
  \A w \in Workers :
    Succeeded(w) =>
      /\ body[w][1].model = <<>> =>
           /\ response[w][1].mode = "claude"
           /\ response[w][1].data.model = "claude"
      /\ body[w][1].tools = <<>> => response[w][1].data.tools_used = <<>>
      /\ body[w][1].model # <<>> =>
           /\ response[w][1].mode = body[w][1].model[1]
           /\ response[w][1].data.model = body[w][1].model[1]
      /\ body[w][1].tools # <<>> =>
           response[w][1].data.tools_used = body[w][1].tools[1]

C5_Witness ==
  \E w \in Workers :
    /\ Succeeded(w)
    /\ body[w][1].model = <<>>
    /\ body[w][1].tools = <<>>
    /\ response[w][1].mode = "claude"

\* ---- C7 ----------------------------------------------------------------
\* C7: in every response completed_at >= started_at.
C7_CompletedNotBeforeStarted ==
  \A w \in Workers :
    Succeeded(w) => response[w][1].completed_at >= response[w][1].started_at

C8_InternalError ==
  \A w \in Workers :
    /\ pc[w] = "failed" =>
         /\ exc[w] # <<>>
         /\ error[w] = << [status_code |-> 500,
                           detail |-> IF Len(exc[w][1].args) = 0 THEN ""
                                      ELSE exc[w][1].args[1]] >>
         /\ response[w] = <<>>
    /\ exc[w] # <<>> => pc[w] = "failed"
    /\ (pc[w] = "done") <=> HasResponse(w)
    /\ (pc[w] = "rejected") <=> HasError(w, 422)
    /\ (pc[w] = "failed") <=> HasError(w, 500)
    /\ ~(HasResponse(w) /\ error[w] # <<>>)
    /\ error[w] # <<>> => (HasError(w, 422) \/ HasError(w, 500))

C8_Witness ==
  \E w \in Workers :
    /\ pc[w] = "failed"
    /\ steps[w] # <<>>
    /\ exc[w][1].args = <<"boom">>
    /\ error[w][1].detail = "boom"
    /\ response[w] = <<>>

====
